---- MODULE Spec2Model ----
(***************************************************************************)
(* Automatic persisted queries: the onParse negotiation of                 *)
(* useAutomaticPersistedQueries (plugin.ts) over the LRU store of          *)
(* createLRUStore (store.ts).                                              *)
(*                                                                         *)
(* Encoding of JavaScript values:                                          *)
(*   - a string that is `undefined` is the value Undefined;                *)
(*   - a version that is `undefined` is the value UndefinedVersion;        *)
(*   - a DocumentNode, a parse Error and "no document" are records         *)
(*     [kind, body].                                                       *)
(***************************************************************************)
EXTENDS Integers, Sequences, FiniteSets, TLC

\* ------------------------------------------------------------------ bounds
NumRequests == 2          \* request slots that can be in flight together
MaxSize == 2              \* createLRUStore(maxSize, ...)
Ttl == 2                  \* createLRUStore(..., ttl), in units of time

Requests == 1..NumRequests

\* ------------------------------------------------------- program constants
DEFAULT_PROTOCOL_VERSION == 1
DEFAULT_HASH_ALGORITHM == "sha256"
ALGORITHMS == {"sha256", "md5"}

errors ==
  [NOT_SUPPORTED |-> "PersistedQueryNotSupported",
   NOT_FOUND |-> "PersistedQueryNotFound",
   HASH_MISSING |-> "PersistedQueryHashMissing",
   INVALID_VERSION |-> "Unsupported persisted query version",
   HASH_MISMATCH |-> "PersistedQueryHashMismatch"]

codes ==
  [NOT_SUPPORTED |-> "PERSISTED_QUERY_NOT_SUPPORTED",
   NOT_FOUND |-> "PERSISTED_QUERY_NOT_FOUND",
   HASH_MISSING |-> "PERSISTED_QUERY_HASH_MISSING",
   INVALID_VERSION |-> "PERSISTED_QUERY_INVALID_VERSION",
   HASH_MISMATCH |-> "PERSISTED_QUERY_HASH_MISMATCH"]

\* ------------------------------------------------------------ value domains
Undefined == "undefined"
UndefinedVersion == -1

\* Query texts: the empty string, two texts that parse, and no text at all.
ValidTexts == {"q1", "q2"}
Texts == {""} \cup ValidTexts
Sources == {Undefined} \cup Texts

Truthy(s) == s # Undefined /\ s # ""

\* crypto.createHash(algo).update(query).digest('hex'): a digest per
\* (algorithm, text), no two alike.
generateHash(query, algo) ==
  IF algo = "sha256"
  THEN CASE query = "" -> "e3b0c4"
         [] query = "q1" -> "5a1f0e"
         [] query = "q2" -> "c77d92"
         [] OTHER -> "0ffe1d"
  ELSE CASE query = "" -> "d41d8c"
         [] query = "q1" -> "7b8e33"
         [] query = "q2" -> "29a4b6"
         [] OTHER -> "f00dba"

\* ------------------------------------------------------------- documents
NoDocument == [kind |-> "none", body |-> ""]
DocumentNode(text) == [kind |-> "Document", body |-> text]
SyntaxError(text) == [kind |-> "Error", body |-> text]

\* graphql's parse: a DocumentNode, or a thrown error that the parse phase
\* hands to the after-parse hooks as its result.
parseFn(text) ==
  IF text \in ValidTexts THEN DocumentNode(text) ELSE SyntaxError(text)

\* ------------------------------------------------------------- the options
\* UseAutomaticPersistedQueryOptions, fixed when the plugin is created.
\* store is "default" (option omitted: createLRUStore()) or a store of the
\* caller's: "async", whose get and put return promises, or "throwing",
\* whose put throws.
\* resolvePersistedQuery is "default" (option omitted) or "custom"; an
\* omitted version is UndefinedVersion, an omitted writeToContext is TRUE.
NoOptions ==
  [version |-> UndefinedVersion,
   hashAlgorithm |-> DEFAULT_HASH_ALGORITHM,
   resolvePersistedQuery |-> "default",
   store |-> "default",
   writeToContext |-> TRUE]

AllOptions ==
  [version |-> 2,
   hashAlgorithm |-> "md5",
   resolvePersistedQuery |-> "custom",
   store |-> "default",
   writeToContext |-> FALSE]

\* The plugin without options, with each option alone, and with all of them.
Options ==
  {NoOptions, AllOptions,
   [NoOptions EXCEPT !.version = AllOptions.version],
   [NoOptions EXCEPT !.hashAlgorithm = AllOptions.hashAlgorithm],
   [NoOptions EXCEPT !.resolvePersistedQuery = AllOptions.resolvePersistedQuery],
   [NoOptions EXCEPT !.writeToContext = AllOptions.writeToContext]}

\* The plugin with a store of the caller's and no other option.
CustomStores == {"async", "throwing"}
CustomStoreOptions == {[NoOptions EXCEPT !.store = s] : s \in CustomStores}

\* The version option without its default.
expectedVersionAsGiven(opts) == opts.version

\* version: expectedVersion = DEFAULT_PROTOCOL_VERSION
expectedVersion(opts) ==
  IF opts.version = UndefinedVersion THEN DEFAULT_PROTOCOL_VERSION ELSE opts.version

\* options?.writeToContext !== false
writeToContext(opts) == opts.writeToContext # FALSE

\* ------------------------------------------------- the request's extension
\* body.extensions.persistedQuery: absent, or an object with an optional
\* version and at most one `<algorithm>Hash` field.
HashKey(algorithm) == IF algorithm = "sha256" THEN "sha256Hash" ELSE "md5Hash"

NoExtension ==
  [present |-> FALSE, version |-> UndefinedVersion, key |-> "none", val |-> Undefined]

Versions == {UndefinedVersion, 1, 2}

Extensions ==
  {NoExtension}
    \cup [present : {TRUE}, version : Versions, key : {"none"}, val : {Undefined}]
    \cup UNION {[present : {TRUE}, version : Versions, key : {HashKey(a)},
                 val : {""} \cup {generateHash(t, a) : t \in Texts}] : a \in ALGORITHMS}

\* ------------------------------------------------------ thrown errors
NoError == [message |-> "", code |-> ""]
PersistedQueryError(message, code) == [message |-> message, code |-> code]

NoDescriptor == [present |-> FALSE, hash |-> Undefined, version |-> UndefinedVersion]
PersistedQuery(hash, version) == [present |-> TRUE, hash |-> hash, version |-> version]

Return(value) == [thrown |-> FALSE, error |-> NoError, value |-> value]
Throw(error) == [thrown |-> TRUE, error |-> error, value |-> NoDescriptor]


\* The extractor that takes the hash of whichever algorithm the request names.
getPersistedQueryFromContextAnyHash(ext, algorithm) ==
  IF ext.present
  THEN IF ext.version = UndefinedVersion /\ ext.val = Undefined
       THEN Throw(PersistedQueryError(errors.NOT_FOUND, codes.NOT_FOUND))
       ELSE Return(PersistedQuery(ext.val,
                                  IF ext.version = UndefinedVersion THEN 0 ELSE ext.version))
  ELSE Return(NoDescriptor)

\* The default extractor without the default of the version.
getPersistedQueryFromContextNoDefault(ext, algorithm) ==
  IF ext.present
  THEN LET key == HashKey(algorithm)
           pqKey == IF ext.key = key THEN ext.val ELSE Undefined
       IN IF ext.version = UndefinedVersion /\ pqKey = Undefined
          THEN Throw(PersistedQueryError(errors.NOT_FOUND, codes.NOT_FOUND))
          ELSE Return(PersistedQuery(pqKey, ext.version))
  ELSE Return(NoDescriptor)

\* The default extractor.
getPersistedQueryFromContext(ext, algorithm) ==
  IF ext.present
  THEN LET key == HashKey(algorithm)
           pqKey == IF ext.key = key THEN ext.val ELSE Undefined
       IN IF ext.version = UndefinedVersion /\ pqKey = Undefined
          THEN Throw(PersistedQueryError(errors.NOT_FOUND, codes.NOT_FOUND))
          ELSE LET hash == pqKey
                   version == IF ext.version = UndefinedVersion THEN 0 ELSE ext.version
               IN Return(PersistedQuery(hash, version))
  ELSE Return(NoDescriptor)

\* A resolvePersistedQuery supplied by the application: it hands over the
\* extension's hash and version as they are, a missing version included.
customResolvePersistedQuery(ext) ==
  IF ext.present THEN Return(PersistedQuery(ext.val, ext.version)) ELSE Return(NoDescriptor)

\* _resolvePersistedQuery ?? (context => getPersistedQueryFromContext(...))
getPersistedQuery(ext, opts) ==
  IF opts.resolvePersistedQuery = "custom"
  THEN customResolvePersistedQuery(ext)
  ELSE getPersistedQueryFromContext(ext, opts.hashAlgorithm)

\* ------------------------------------------------------------ the LRU store
\* The cache is the sequence of its entries [key, value, left], least
\* recently used first. An entry is created with expiry = Date.now() + ttl
\* and has expired once expiry <= Date.now(); left is expiry - Date.now(),
\* the time the entry still has, 0 when it has expired.
Has(cache, key) == \E i \in 1..Len(cache) : cache[i].key = key
IndexOf(cache, key) == CHOOSE i \in 1..Len(cache) : cache[i].key = key
Remove(cache, i) == SubSeq(cache, 1, i - 1) \o SubSeq(cache, i + 1, Len(cache))
Keys(cache) == {cache[i].key : i \in 1..Len(cache)}
Expired(item) == Ttl > 0 /\ item.left = 0
Live(cache, key) == \E i \in 1..Len(cache) : cache[i].key = key /\ ~Expired(cache[i])

\* cache.get that leaves the entry where it is in the order.
lruGetNoTouch(cache, key) ==
  IF Has(cache, key)
  THEN LET i == IndexOf(cache, key)
           item == cache[i]
       IN IF Expired(item)
          THEN [cache |-> Remove(cache, i), value |-> NoDocument]
          ELSE [cache |-> cache, value |-> item.value]
  ELSE [cache |-> cache, value |-> NoDocument]

\* cache.get that gives the entry it returns a new time-to-live.
lruGetRenews(cache, key) ==
  IF Has(cache, key)
  THEN LET i == IndexOf(cache, key)
           item == cache[i]
       IN IF Expired(item)
          THEN [cache |-> Remove(cache, i), value |-> NoDocument]
          ELSE [cache |-> Append(Remove(cache, i), [item EXCEPT !.left = Ttl]),
                value |-> item.value]
  ELSE [cache |-> cache, value |-> NoDocument]

\* cache.get(key): an expired entry is deleted and missed; a live one
\* becomes the most recently used.
lruGet(cache, key) ==
  IF Has(cache, key)
  THEN LET i == IndexOf(cache, key)
           item == cache[i]
       IN IF Expired(item)
          THEN [cache |-> Remove(cache, i), value |-> NoDocument]
          ELSE [cache |-> Append(Remove(cache, i), item), value |-> item.value]
  ELSE [cache |-> cache, value |-> NoDocument]

\* cache.set that makes no room for a new key.
lruSetNoEvict(cache, key, value) ==
  IF Has(cache, key)
  THEN LET i == IndexOf(cache, key)
       IN Append(Remove(cache, i), [cache[i] EXCEPT !.value = value])
  ELSE Append(cache, [key |-> key, value |-> value, left |-> Ttl])

\* cache.set(key, value): a present key gets the value and becomes the most
\* recently used; a new key evicts the least recently used entry of a full
\* cache and expires ttl from now.
lruSet(cache, key, value) ==
  IF Has(cache, key)
  THEN LET i == IndexOf(cache, key)
       IN Append(Remove(cache, i), [cache[i] EXCEPT !.value = value])
  ELSE LET room == IF MaxSize > 0 /\ Len(cache) = MaxSize THEN Tail(cache) ELSE cache
       IN Append(room, [key |-> key, value |-> value, left |-> Ttl])

\* createLRUStore(MaxSize, Ttl).get: cache.get(hash) ?? null
storeGet(cache, hash) == lruGet(cache, hash)

\* createLRUStore(MaxSize, Ttl).put
storePut(cache, hash, query) == lruSet(cache, hash, query)

\* A promise of a value.
Pending(value) == [kind |-> "Promise", body |-> value.body]

\* store.get of the plugin's store, _store ?? createLRUStore(). The stores of
\* the caller keep their entries as the default store does; the async one
\* returns a promise of what the default store returns.
store_get(opts, cache, hash) ==
  LET got == storeGet(cache, hash)
  IN IF opts.store = "async"
     THEN [cache |-> got.cache, value |-> Pending(got.value)]
     ELSE got

\* store.put of the plugin's store: the cache after the call, and whether
\* the call threw.
store_put(opts, cache, hash, query) ==
  IF opts.store = "throwing"
  THEN [cache |-> cache, thrown |-> TRUE]
  ELSE [cache |-> storePut(cache, hash, query), thrown |-> FALSE]

\* One unit of time passes for every entry.
Age(cache) ==
  [i \in 1..Len(cache) |-> [cache[i] EXCEPT !.left = IF @ > 0 THEN @ - 1 ELSE 0]]

\* ------------------------------------------------------------- the requests
VARIABLES
  options,   \* the options the plugin was created with
  store,     \* the cache of the store
  req,       \* per request slot: its input, its position and what it did
  call,      \* the last direct call of the store and what it returned
  recency,   \* the keys the store should hold, least recently accessed first
  age        \* per such key, the time since it was inserted, up to Ttl

vars == <<options, store, req, call, recency, age>>

\* What is known of the store when it is called directly.
direct == <<call, recency, age>>

\* age of a key that is not held
NotHeld == -1

\* op, key and value: the call and what get returned or put was given; had,
\* aged and size: whether the key was held before the call, for how long,
\* and how many keys were; victim: the key that was the least recently
\* accessed before a put that needed room.
NoCall ==
  [op |-> "none", key |-> Undefined, value |-> NoDocument,
   had |-> FALSE, aged |-> NotHeld, size |-> 0, victim |-> Undefined]

NotExtended == "not extended"

\* pc: "idle" (no request), "parsing" (onParse returned the after-parse hook),
\* "executing" (a document is set), and the ends "failed" (onParse threw),
\* "parseError" (the text did not parse) and "done" (executed).
IdleRequest ==
  [pc |-> "idle", source |-> Undefined, version |-> UndefinedVersion,
   queryHash |-> Undefined, document |-> NoDocument, error |-> NoError,
   hook |-> FALSE, gets |-> 0, puts |-> 0, ctx |-> NotExtended, exec |-> "none"]

Terminal == {"failed", "parseError", "done"}

\* A finished request is answered before anything else happens: onParse
\* throws, and the parse phase ends, inside the caller's own synchronous step.
Quiet == \A s \in Requests : req[s].pc \notin Terminal

Received(source) == [IdleRequest EXCEPT !.source = source]

\* onParse throws: the request ends with the error; what is left of it is
\* the version and the queryHash it had read by then and its reads of the
\* store.
Fail(rq, error, cache) ==
  [req |-> [IdleRequest EXCEPT !.pc = "failed", !.error = error,
                               !.version = rq.version,
                               !.queryHash = rq.queryHash, !.gets = rq.gets],
   store |-> cache]

INTERNAL_MESSAGE ==
  "GraphQL operations must contain a non-empty query or a persistedQuery extension."

\* 'Provided ${hashAlgorithm} hash does not match query'
MismatchMessage(hashAlgorithm) ==
  IF hashAlgorithm = "sha256"
  THEN "Provided sha256 hash does not match query"
  ELSE "Provided md5 hash does not match query"

\* onParse returns the after-parse hook, which closes over queryHash; the
\* descriptor's version is out of scope from then on.
RegisterHook(rq, queryHash, cache) ==
  [req |-> [rq EXCEPT !.pc = "parsing", !.version = UndefinedVersion,
                      !.queryHash = queryHash, !.hook = TRUE],
   store |-> cache]

\* Lookup that does not test what the store returned.
LookupNoMissCheck(rq, queryHash, cache, opts) ==
  IF ~Truthy(queryHash)
  THEN Fail(rq, PersistedQueryError(errors.HASH_MISSING, codes.HASH_MISSING), cache)
  ELSE LET got == store_get(opts, cache, queryHash)
           read == [rq EXCEPT !.gets = @ + 1]
       IN [req |-> [read EXCEPT
                      !.pc = "executing",
                      !.version = UndefinedVersion,
                      !.document = got.value,
                      !.ctx = IF writeToContext(opts) THEN rq.source ELSE @],
           store |-> got.cache]

\* Lookup that remembers a miss in the store.
LookupCachesMiss(rq, queryHash, cache, opts) ==
  IF ~Truthy(queryHash)
  THEN Fail(rq, PersistedQueryError(errors.HASH_MISSING, codes.HASH_MISSING), cache)
  ELSE LET got == store_get(opts, cache, queryHash)
           cachedQuery == got.value
           read == [rq EXCEPT !.gets = @ + 1]
       IN IF cachedQuery.kind = "none"
          THEN Fail(read, PersistedQueryError(errors.NOT_FOUND, codes.NOT_FOUND),
                    storePut(got.cache, queryHash, NoDocument))
          ELSE [req |-> [read EXCEPT
                           !.pc = "executing",
                           !.version = UndefinedVersion,
                           !.document = cachedQuery,
                           !.ctx = IF writeToContext(opts) THEN rq.source ELSE @],
                store |-> got.cache]

\* Lookup that takes only an undefined hash for a missing one.
LookupEmptyHash(rq, queryHash, cache, opts) ==
  IF queryHash = Undefined
  THEN Fail(rq, PersistedQueryError(errors.HASH_MISSING, codes.HASH_MISSING), cache)
  ELSE LET got == store_get(opts, cache, queryHash)
           cachedQuery == got.value
           read == [rq EXCEPT !.gets = @ + 1]
       IN IF cachedQuery.kind = "none"
          THEN Fail(read, PersistedQueryError(errors.NOT_FOUND, codes.NOT_FOUND), got.cache)
          ELSE [req |-> [read EXCEPT
                           !.pc = "executing",
                           !.version = UndefinedVersion,
                           !.document = cachedQuery,
                           !.ctx = IF writeToContext(opts) THEN rq.source ELSE @],
                store |-> got.cache]

\* Lookup that goes on to the hook after a hit instead of returning.
LookupThenHook(rq, queryHash, cache, opts) ==
  IF ~Truthy(queryHash)
  THEN Fail(rq, PersistedQueryError(errors.HASH_MISSING, codes.HASH_MISSING), cache)
  ELSE LET got == store_get(opts, cache, queryHash)
           cachedQuery == got.value
           read == [rq EXCEPT !.gets = @ + 1]
       IN IF cachedQuery.kind = "none"
          THEN Fail(read, PersistedQueryError(errors.NOT_FOUND, codes.NOT_FOUND), got.cache)
          ELSE [req |-> [read EXCEPT
                           !.pc = "executing",
                           !.version = UndefinedVersion,
                           !.document = cachedQuery,
                           !.hook = TRUE,
                           !.puts = @ + 1,
                           !.ctx = IF writeToContext(opts) THEN rq.source ELSE @],
                store |-> store_put(opts, got.cache, queryHash, cachedQuery).cache]

\* Lookup that waits for what get has promised.
LookupAwaits(rq, queryHash, cache, opts) ==
  IF ~Truthy(queryHash)
  THEN Fail(rq, PersistedQueryError(errors.HASH_MISSING, codes.HASH_MISSING), cache)
  ELSE LET got == storeGet(cache, queryHash)
           cachedQuery == got.value
           read == [rq EXCEPT !.gets = @ + 1]
       IN IF cachedQuery.kind = "none"
          THEN Fail(read, PersistedQueryError(errors.NOT_FOUND, codes.NOT_FOUND), got.cache)
          ELSE [req |-> [read EXCEPT
                           !.pc = "executing",
                           !.version = UndefinedVersion,
                           !.document = cachedQuery,
                           !.ctx = IF writeToContext(opts) THEN rq.source ELSE @],
                store |-> got.cache]

\* The lookup branch: query === undefined.
Lookup(rq, queryHash, cache, opts) ==
  IF ~Truthy(queryHash)
  THEN Fail(rq, PersistedQueryError(errors.HASH_MISSING, codes.HASH_MISSING), cache)
  ELSE LET got == store_get(opts, cache, queryHash)
           cachedQuery == got.value
           read == [rq EXCEPT !.gets = @ + 1]
       IN IF cachedQuery.kind = "none"
          THEN Fail(read, PersistedQueryError(errors.NOT_FOUND, codes.NOT_FOUND), got.cache)
          ELSE LET result == IF cachedQuery.kind = "String"
                             THEN parseFn(cachedQuery.body)
                             ELSE cachedQuery
               IN [req |-> [read EXCEPT
                              !.pc = "executing",
                              !.version = UndefinedVersion,
                              !.document = result,
                              !.ctx = IF writeToContext(opts) THEN rq.source ELSE @],
                   store |-> got.cache]

\* Verify that trusts a hash the store already knows.
VerifyUnlessCached(rq, queryHash, query, cache, opts) ==
  LET computedQueryHash == generateHash(query, opts.hashAlgorithm)
  IN IF queryHash # computedQueryHash /\ ~Has(cache, queryHash)
     THEN Fail(rq, PersistedQueryError(MismatchMessage(opts.hashAlgorithm),
                                       codes.HASH_MISMATCH), cache)
     ELSE RegisterHook(rq, queryHash, cache)

\* Verify without the comparison of the hashes.
VerifyUnchecked(rq, queryHash, query, cache, opts) ==
  RegisterHook(rq, queryHash, cache)

\* The verify branch: query text came with the descriptor.
Verify(rq, queryHash, query, cache, opts) ==
  LET computedQueryHash == generateHash(query, opts.hashAlgorithm)
  IN IF queryHash # computedQueryHash
     THEN Fail(rq, PersistedQueryError(MismatchMessage(opts.hashAlgorithm),
                                       codes.HASH_MISMATCH), cache)
     ELSE RegisterHook(rq, queryHash, cache)

\* Negotiate that checks the version of descriptor-only requests alone.
NegotiateVersionOnLookup(rq, persistedQuery, query, cache, opts) ==
  LET hash == persistedQuery.hash
      version == persistedQuery.version
      seen == [rq EXCEPT !.version = version]
      read == [seen EXCEPT !.queryHash = hash]
  IN IF query = Undefined
     THEN IF version # UndefinedVersion /\ version # expectedVersion(opts)
          THEN Fail(seen, PersistedQueryError(errors.INVALID_VERSION, codes.INVALID_VERSION),
                    cache)
          ELSE Lookup(read, hash, cache, opts)
     ELSE Verify(read, hash, query, cache, opts)

\* Negotiate without the test that the version is a number.
NegotiateStrictVersion(rq, persistedQuery, query, cache, opts) ==
  LET hash == persistedQuery.hash
      version == persistedQuery.version
      seen == [rq EXCEPT !.version = version]
      read == [seen EXCEPT !.queryHash = hash]
  IN IF version # expectedVersion(opts)
     THEN Fail(seen, PersistedQueryError(errors.INVALID_VERSION, codes.INVALID_VERSION), cache)
     ELSE IF query = Undefined
          THEN Lookup(read, hash, cache, opts)
          ELSE Verify(read, hash, query, cache, opts)

\* The version check, then lookup or verify.
Negotiate(rq, persistedQuery, query, cache, opts) ==
  LET hash == persistedQuery.hash
      version == persistedQuery.version
      seen == [rq EXCEPT !.version = version]
      read == [seen EXCEPT !.queryHash = hash]
  IN IF version # UndefinedVersion /\ version # expectedVersion(opts)
     THEN Fail(seen, PersistedQueryError(errors.INVALID_VERSION, codes.INVALID_VERSION), cache)
     ELSE IF query = Undefined
          THEN Lookup(read, hash, cache, opts)
          ELSE Verify(read, hash, query, cache, opts)

\* onParse without the test of the query in the branch without descriptor.
onParseAnyQuery(ext, source, cache, opts) ==
  LET rq == Received(source)
      resolved == getPersistedQuery(ext, opts)
      persistedQuery == resolved.value
      query == source
  IN IF resolved.thrown
     THEN Fail(rq, resolved.error, cache)
     ELSE IF persistedQuery.present
          THEN Negotiate(rq, persistedQuery, query, cache, opts)
          ELSE RegisterHook(rq, generateHash(query, opts.hashAlgorithm), cache)

\* onParse({ context, parseFn, params: { source }, ... })
onParse(ext, source, cache, opts) ==
  LET rq == Received(source)
      resolved == getPersistedQuery(ext, opts)
      persistedQuery == resolved.value
      query == source
  IN IF resolved.thrown
     THEN Fail(rq, resolved.error, cache)
     ELSE IF persistedQuery.present
          THEN Negotiate(rq, persistedQuery, query, cache, opts)
          ELSE IF Truthy(query)
               THEN RegisterHook(rq, generateHash(query, opts.hashAlgorithm), cache)
               ELSE Fail(rq, PersistedQueryError(INTERNAL_MESSAGE, "INTERNAL_SERVER_ERROR"),
                         cache)

\* What a store of the caller's throws from put.
StoreError == [message |-> "put failed", code |-> Undefined]

\* The hook without the test of the result.
afterParsePutsAnyResult(rq, result, cache, opts) ==
  IF Truthy(rq.queryHash)
  THEN [req |-> [rq EXCEPT !.pc = IF result.kind = "Document" THEN "executing" ELSE "parseError",
                           !.document = result, !.puts = @ + 1],
        store |-> store_put(opts, cache, rq.queryHash, result).cache]
  ELSE [req |-> [rq EXCEPT !.pc = IF result.kind = "Document" THEN "executing" ELSE "parseError",
                           !.document = result],
        store |-> cache]

\* The hook that puts the document under the text instead of the hash.
afterParseKeyedByText(rq, result, cache, opts) ==
  IF result.kind = "none" \/ result.kind = "Error"
  THEN [req |-> [rq EXCEPT !.pc = "parseError", !.document = result], store |-> cache]
  ELSE [req |-> [rq EXCEPT !.pc = "executing", !.document = result, !.puts = @ + 1],
        store |-> store_put(opts, cache, rq.source, result).cache]

\* The after-parse hook: ({ result }) => { ... store.put(queryHash, result) }
\* Nothing catches what put throws: it leaves the hook and the parse phase
\* and the request ends with it. What put returns is not looked at.
afterParse(rq, result, cache, opts) ==
  IF result.kind = "none" \/ result.kind = "Error"
  THEN [req |-> [rq EXCEPT !.pc = "parseError", !.document = result], store |-> cache]
  ELSE IF Truthy(rq.queryHash)
       THEN LET put == store_put(opts, cache, rq.queryHash, result)
                called == [rq EXCEPT !.document = result, !.puts = @ + 1]
            IN IF put.thrown
               THEN [req |-> [called EXCEPT !.pc = "failed", !.error = StoreError],
                     store |-> put.cache]
               ELSE [req |-> [called EXCEPT !.pc = "executing"], store |-> put.cache]
       ELSE [req |-> [rq EXCEPT !.pc = "executing", !.document = result], store |-> cache]

\* ------------------------------------------------- the store called directly
\* Keys and values of direct calls of createLRUStore(MaxSize, Ttl).
StoreKeys == {generateHash(t, DEFAULT_HASH_ALGORITHM) : t \in Texts}
StoreValues == {DocumentNode(t) : t \in ValidTexts}

Held(key) == \E i \in 1..Len(recency) : recency[i] = key
Without(keys, key) == SelectSeq(keys, LAMBDA k : k # key)
Elapsed(key) == Ttl > 0 /\ age[key] >= Ttl

Called(op, key, value) ==
  [op |-> op, key |-> key, value |-> value,
   had |-> Held(key), aged |-> age[key], size |-> Len(recency),
   victim |-> IF op = "put" /\ ~Held(key) /\ Len(recency) >= MaxSize
              THEN Head(recency) ELSE Undefined]

\* --------------------------------------------------------------- the actions
Init ==
  /\ options \in Options
  /\ store = <<>>
  /\ req = [r \in Requests |-> IdleRequest]
  /\ call = NoCall
  /\ recency = <<>>
  /\ age = [k \in StoreKeys |-> NotHeld]

\* A request arrives in the first free slot and the parse phase calls onParse.
OnParse(r) ==
  /\ Quiet
  /\ req[r].pc = "idle"
  /\ \A s \in Requests : s < r => req[s].pc # "idle"
  /\ \E ext \in Extensions, source \in Sources :
       LET out == onParse(ext, source, store, options)
       IN /\ req' = [req EXCEPT ![r] = out.req]
          /\ store' = out.store
  /\ UNCHANGED <<options, direct>>

\* The parse phase parses the text and calls the hook with the result.
AfterParse(r) ==
  /\ Quiet
  /\ req[r].pc = "parsing"
  /\ LET out == afterParse(req[r], parseFn(req[r].source), store, options)
     IN /\ req' = [req EXCEPT ![r] = out.req]
        /\ store' = out.store
  /\ UNCHANGED <<options, direct>>

\* Validation and execution of the document, which succeed or not; of what
\* is not a document they do not succeed.
Execute(r) ==
  /\ Quiet
  /\ req[r].pc = "executing"
  /\ \E outcome \in IF req[r].document.kind = "Document" THEN {"ok", "error"} ELSE {"error"} :
       req' = [req EXCEPT ![r] = [req[r] EXCEPT !.pc = "done", !.exec = outcome]]
  /\ UNCHANGED <<options, store, direct>>

\* The response of a finished request goes out and its slot is free again.
Respond(r) ==
  /\ req[r].pc \in Terminal
  /\ req' = [req EXCEPT ![r] = IdleRequest]
  /\ UNCHANGED <<options, store, direct>>

\* Time passes.
Tick ==
  /\ Quiet
  /\ store' = Age(store)
  /\ store' # store
  /\ UNCHANGED <<options, req, direct>>

Next ==
  \/ \E r \in Requests : OnParse(r)
  \/ \E r \in Requests : AfterParse(r)
  \/ \E r \in Requests : Execute(r)
  \/ \E r \in Requests : Respond(r)
  \/ Tick

Spec == Init /\ [][Next]_vars

\* The plugin over a store of the caller's.
CustomStoreInit ==
  /\ options \in CustomStoreOptions
  /\ store = <<>>
  /\ req = [r \in Requests |-> IdleRequest]
  /\ call = NoCall
  /\ recency = <<>>
  /\ age = [k \in StoreKeys |-> NotHeld]

CustomStoreSpec == CustomStoreInit /\ [][Next]_vars

\* ------------------------------------------------ the store, called directly
\* store.get(hash). An access of a held key makes it the most recently
\* accessed; a key whose time has elapsed is held no longer.
Get(hash) ==
  /\ LET got == storeGet(store, hash)
     IN /\ store' = got.cache
        /\ call' = Called("get", hash, got.value)
  /\ IF Held(hash) /\ Elapsed(hash)
     THEN /\ recency' = Without(recency, hash)
          /\ age' = [age EXCEPT ![hash] = NotHeld]
     ELSE IF Held(hash)
          THEN /\ recency' = Append(Without(recency, hash), hash)
               /\ age' = age
          ELSE UNCHANGED <<recency, age>>
  /\ UNCHANGED <<options, req>>

\* store.put(hash, query). A put is an access; a put of a key that is not
\* held inserts it at age 0, in the place of the least recently accessed key
\* when MaxSize keys are held.
Put(hash, query) ==
  /\ store' = storePut(store, hash, query)
  /\ call' = Called("put", hash, query)
  /\ IF Held(hash)
     THEN /\ recency' = Append(Without(recency, hash), hash)
          /\ age' = age
     ELSE LET victim == Called("put", hash, query).victim
          IN /\ recency' = Append(Without(recency, victim), hash)
             /\ age' = [k \in StoreKeys |->
                          IF k = hash THEN 0
                          ELSE IF k = victim THEN NotHeld ELSE age[k]]
  /\ UNCHANGED <<options, req>>

\* Time passes between calls.
Elapse ==
  /\ \E k \in StoreKeys : age[k] # NotHeld /\ age[k] < Ttl
  /\ store' = Age(store)
  /\ age' = [k \in StoreKeys |->
               IF age[k] # NotHeld /\ age[k] < Ttl THEN age[k] + 1 ELSE age[k]]
  /\ call' = [NoCall EXCEPT !.op = "elapse"]
  /\ UNCHANGED <<options, req, recency>>

StoreInit == Init /\ options = NoOptions

StoreNext ==
  \/ \E hash \in StoreKeys : Get(hash)
  \/ \E hash \in StoreKeys, query \in StoreValues : Put(hash, query)
  \/ Elapse

StoreSpec == StoreInit /\ [][StoreNext]_vars

\* ---------------------------------------------------------------- the claims
\* A request arrives and onParse is about to run on the store as it is.
\* onParse reads the store and the options and nothing of the requests in
\* flight, so what it does with a request is looked at when none is.
CanArrive == \A r \in Requests : req[r].pc = "idle"

\* What onParse does with a request arriving now.
Outcome(ext, source) == onParse(ext, source, store, options)

\* The extensions of which the configured extractor makes a descriptor.
WithDescriptor ==
  {ext \in Extensions :
     ~getPersistedQuery(ext, options).thrown /\ getPersistedQuery(ext, options).value.present}

\* The descriptor the configured extractor makes of ext \in WithDescriptor.
Descriptor(ext) == getPersistedQuery(ext, options).value

PassesVersionCheck(d) ==
  d.version = UndefinedVersion \/ d.version = expectedVersion(options)

FailsWith(out, code) == out.req.pc = "failed" /\ out.req.error.code = code

NoStoreAccess(out) ==
  /\ ~out.req.hook
  /\ out.req.gets = 0
  /\ out.req.puts = 0
  /\ out.store = store

\* C1: a request that carries query text and a descriptor that passes the
\* version check, whose hash is not the hash of the text, fails with
\* PERSISTED_QUERY_HASH_MISMATCH whatever the store holds; no hook is
\* registered and the store is neither read nor written.
C1_AntiHijacking ==
  CanArrive =>
    \A ext \in WithDescriptor :
      LET d == Descriptor(ext)
      IN PassesVersionCheck(d) =>
           \A source \in Texts :
             d.hash # generateHash(source, options.hashAlgorithm)
             => LET out == Outcome(ext, source)
                IN FailsWith(out, codes.HASH_MISMATCH) /\ NoStoreAccess(out)

\* A request was refused for a hash that is a key of the store.
C1_Witness ==
  \E r \in Requests :
    /\ req[r].pc = "failed"
    /\ req[r].error.code = codes.HASH_MISMATCH
    /\ Has(store, req[r].queryHash)
    /\ req[r].gets = 0

\* C2: every entry of the store holds, under key h, the document of a text
\* whose hash is h; a request resolved from the store has the document of a
\* text that hashes to the hash it asked for; and a put that is pending for a
\* key of the store would write the document that is already there.
C2_CachePoisoning ==
  /\ \A i \in 1..Len(store) :
       /\ store[i].value.kind = "Document"
       /\ store[i].key = generateHash(store[i].value.body, options.hashAlgorithm)
  /\ \A r \in Requests :
       /\ (req[r].gets > 0 /\ req[r].pc \in {"executing", "done"})
          => /\ req[r].document.kind = "Document"
             /\ req[r].queryHash = generateHash(req[r].document.body, options.hashAlgorithm)
       /\ (req[r].pc = "parsing" /\ Has(store, req[r].queryHash)
             /\ parseFn(req[r].source).kind = "Document")
          => store[IndexOf(store, req[r].queryHash)].value = parseFn(req[r].source)

\* A request is resolved from the store while another put for the same hash
\* is pending.
C2_Witness ==
  \E r, s \in Requests :
    /\ req[r].pc = "executing" /\ req[r].gets = 1
    /\ req[s].pc = "parsing" /\ req[s].queryHash = req[r].queryHash
    /\ Has(store, req[r].queryHash)

\* C3 as stated: a request that registered the hook has written the store
\* when its execution succeeded, and has not when its execution failed.
C3_WriteOnlyOnExecutionSuccess ==
  \A r \in Requests :
    (req[r].hook /\ req[r].pc = "done")
    => /\ req[r].exec = "ok" => req[r].puts = 1
       /\ req[r].exec = "error" => req[r].puts = 0

\* C3, amended: the hook runs after the parse, before execution. It has
\* written the store once the text has parsed, whatever execution does
\* later, and never when the text did not parse; no parse error is stored.
C3_WriteOnParseSuccess ==
  /\ \A r \in Requests :
       req[r].hook
       => /\ req[r].pc = "parsing" => req[r].puts = 0
          /\ req[r].pc = "parseError"
             => req[r].puts = 0 /\ req[r].document.kind = "Error"
          /\ req[r].pc \in {"executing", "done"}
             => req[r].puts = 1 /\ req[r].document.kind = "Document"
  /\ \A i \in 1..Len(store) : store[i].value.kind = "Document"

\* The execution of a request failed and its document is in the store.
C3_Witness ==
  \E r \in Requests :
    /\ req[r].hook /\ req[r].pc = "done" /\ req[r].exec = "error"
    /\ req[r].puts = 1
    /\ Has(store, req[r].queryHash)
    /\ store[IndexOf(store, req[r].queryHash)].value = req[r].document

\* C4, the hit: a descriptor-only request for a hash that has a live entry
\* resolves without error to the stored document, which is the document of
\* the text with that hash.
C4_Hit ==
  CanArrive =>
    \A ext \in WithDescriptor :
      LET d == Descriptor(ext)
      IN (PassesVersionCheck(d) /\ Live(store, d.hash))
         => LET out == Outcome(ext, Undefined)
            IN /\ out.req.pc = "executing"
               /\ out.req.error = NoError
               /\ out.req.document = store[IndexOf(store, d.hash)].value
               /\ \E t \in Texts :
                    /\ generateHash(t, options.hashAlgorithm) = d.hash
                    /\ out.req.document = DocumentNode(t)

\* C4, the fill: when the text of a request with the hook has parsed, the
\* store holds the document of the text under the hash of the text.
C4_Fill ==
  \A r \in Requests :
    (req[r].pc = "parsing" /\ req'[r].pc = "executing")
    => /\ req[r].queryHash = generateHash(req[r].source, options.hashAlgorithm)
       /\ Has(store', req[r].queryHash)
       /\ store'[IndexOf(store', req[r].queryHash)].value = DocumentNode(req[r].source)

C5_MissOnFirstTry ==
  CanArrive =>
    \A ext \in WithDescriptor :
      LET d == Descriptor(ext)
      IN (PassesVersionCheck(d) /\ Truthy(d.hash) /\ ~Live(store, d.hash))
         => LET out == Outcome(ext, Undefined)
            IN /\ FailsWith(out, codes.NOT_FOUND)
               /\ out.req.error.message = "PersistedQueryNotFound"
               /\ ~out.req.hook /\ out.req.puts = 0
               /\ Keys(out.store) \subseteq Keys(store)

\* A lookup missed on the empty store.
C5_Witness ==
  \E r \in Requests :
    /\ req[r].pc = "failed"
    /\ req[r].error.code = codes.NOT_FOUND
    /\ req[r].gets = 1
    /\ Truthy(req[r].queryHash)
    /\ store = <<>>

C7_NoWriteOnFailure ==
  /\ \A r \in Requests :
       req[r].pc = "failed" => ~req[r].hook /\ req[r].puts = 0
  /\ CanArrive =>
       \A ext \in Extensions, source \in Sources :
         LET out == Outcome(ext, source)
         IN out.req.pc = "failed"
            => /\ ~out.req.hook
               /\ out.req.puts = 0
               /\ Keys(out.store) \subseteq Keys(store)

\* A lookup failed after it had read the store, which has entries.
C7_Witness ==
  \E r \in Requests :
    /\ req[r].pc = "failed"
    /\ req[r].gets = 1
    /\ store # <<>>

\* C8 as stated: with the version option undefined no request fails with
\* PERSISTED_QUERY_INVALID_VERSION.
C8_UndefinedDisablesVersion ==
  options.version = UndefinedVersion
  => \A r \in Requests :
       ~(req[r].pc = "failed" /\ req[r].error.code = codes.INVALID_VERSION)

\* C8, amended: with the version option undefined the expected version is
\* the default, 1: a descriptor with a numeric version fails with
\* PERSISTED_QUERY_INVALID_VERSION exactly when that version is not 1.
C8_UndefinedVersionIsDefault ==
  options.version = UndefinedVersion
  => /\ expectedVersion(options) = DEFAULT_PROTOCOL_VERSION
     /\ CanArrive =>
          \A ext \in WithDescriptor :
            Descriptor(ext).version # UndefinedVersion
            => \A source \in Sources :
                 FailsWith(Outcome(ext, source), codes.INVALID_VERSION)
                 <=> Descriptor(ext).version # 1

\* Version 2 was refused by a plugin created without a version.
C8_Witness ==
  /\ options.version = UndefinedVersion
  /\ \E r \in Requests :
       /\ req[r].pc = "failed"
       /\ req[r].error.code = codes.INVALID_VERSION
       /\ req[r].version = 2

\* C9 as stated: a request whose extension has a hash and no version is not
\* refused for its version. (Clients send version 1 or 2 or none, so a
\* refused version that is neither is the one the extractor made of none.)
C9_MissingVersionPasses ==
  \A r \in Requests :
    (req[r].pc = "failed" /\ req[r].error.code = codes.INVALID_VERSION)
    => req[r].version \in Versions \ {UndefinedVersion}

\* The extension with the version the plugin expects.
WithExpectedVersion(ext) == [ext EXCEPT !.version = expectedVersion(options)]

\* The outcome, but for the version the request remembers.
Forget(out) == [out EXCEPT !.req.version = UndefinedVersion]

\* C9, amended: a descriptor whose version is undefined, which only a custom
\* resolvePersistedQuery yields, is negotiated as if its version were the
\* expected one; the default extractor makes version 0 of a missing version,
\* and the request is refused unless 0 is the expected version.
C9_UndefinedVersion ==
  CanArrive =>
    \A ext \in WithDescriptor :
      ext.version = UndefinedVersion
      => \A source \in Sources :
           LET out == Outcome(ext, source)
           IN IF Descriptor(ext).version = UndefinedVersion
              THEN /\ options.resolvePersistedQuery = "custom"
                   /\ ~FailsWith(out, codes.INVALID_VERSION)
                   /\ Forget(out) = Forget(Outcome(WithExpectedVersion(ext), source))
              ELSE /\ options.resolvePersistedQuery = "default"
                   /\ Descriptor(ext).version = 0
                   /\ FailsWith(out, codes.INVALID_VERSION) <=> expectedVersion(options) # 0

\* A descriptor without a version got as far as the lookup.
C9_Witness ==
  /\ options.resolvePersistedQuery = "custom"
  /\ \E r \in Requests :
       /\ req[r].pc = "failed"
       /\ req[r].error.code = codes.NOT_FOUND
       /\ req[r].gets = 1
       /\ req[r].version = UndefinedVersion

\* The options of a plugin created without options.
DefaultOptions ==
  /\ options.version = UndefinedVersion
  /\ options.hashAlgorithm = DEFAULT_HASH_ALGORITHM
  /\ options.resolvePersistedQuery = "default"

KeyOrder(cache) == [i \in 1..Len(cache) |-> cache[i].key]

\* C11: after any get or put of any sequence of calls, the store created by
\* createLRUStore(MaxSize, Ttl) has at most MaxSize entries, no two of them
\* under the same key.
C11_CapacityBound ==
  /\ Len(store) <= MaxSize
  /\ Cardinality(Keys(store)) = Len(store)

\* A put of a new key into a full store has completed.
C11_Witness ==
  /\ call.op = "put" /\ ~call.had /\ call.size = MaxSize
  /\ Len(store) = MaxSize
  /\ Has(store, call.key)

C13_TtlExpiry ==
  /\ \A i \in 1..Len(store) : store[i].left = Ttl - age[store[i].key]
  /\ call.op = "get"
     => /\ (call.had /\ call.aged >= Ttl)
           => call.value = NoDocument /\ ~Has(store, call.key)
        /\ (call.had /\ call.aged < Ttl)
           => call.value \in StoreValues /\ Has(store, call.key)
        /\ ~call.had => call.value = NoDocument /\ ~Has(store, call.key)

\* A get missed a key that was held and had been inserted Ttl ago.
C13_Witness ==
  /\ call.op = "get" /\ call.had /\ call.aged = Ttl
  /\ call.value = NoDocument
  /\ ~Has(store, call.key)

\* C14 as stated: a request whose hook has called put does not fail, whether
\* or not the put threw, and put is called at most once.
C14_FireAndForgetPut ==
  \A r \in Requests :
    (req[r].hook /\ req[r].puts > 0)
    => req[r].pc # "failed" /\ req[r].puts = 1

\* What onParse does with a request arriving now at the plugin over the
\* default store.
SyncOutcome(ext, source) ==
  onParse(ext, source, store, [options EXCEPT !.store = "default"])

\* C15 as stated: over a store whose get and put return promises, onParse
\* and the hook do to a request and to the entries of the store what they
\* do over the default store.
C15_AsyncStoreAsSync ==
  options.store = "async"
  => /\ CanArrive =>
          \A ext \in Extensions, source \in Sources :
            Outcome(ext, source) = SyncOutcome(ext, source)
     /\ \A r \in Requests :
          req[r].pc \in {"executing", "done"} => req[r].document.kind = "Document"

\* The request is a lookup that reaches the store.
ReadsStore(ext, source) ==
  /\ source = Undefined
  /\ ext \in WithDescriptor
  /\ PassesVersionCheck(Descriptor(ext))
  /\ Truthy(Descriptor(ext).hash)

\* C15, amended: the store is called synchronously. Over a store whose get
\* and put return promises, a request that does not read the store is
\* treated as over the default store, what put returns being ignored; a
\* descriptor-only request that reads the store never fails with
\* PERSISTED_QUERY_NOT_FOUND, whether its hash is stored or not: the
\* promise, which is not a document, is set as its document.
C15_AsyncStoreNotAwaited ==
  options.store = "async"
  => /\ CanArrive =>
          \A ext \in Extensions, source \in Sources :
            LET out == Outcome(ext, source)
            IN IF ReadsStore(ext, source)
               THEN /\ out.req.pc = "executing"
                    /\ out.req.error = NoError
                    /\ out.req.document.kind = "Promise"
                    /\ ~out.req.hook
                    /\ out.store = SyncOutcome(ext, source).store
               ELSE out = SyncOutcome(ext, source)
     /\ \A r \in Requests :
          /\ req[r].pc = "failed" => req[r].error.code # codes.NOT_FOUND \/ req[r].gets = 0
          /\ (req[r].hook /\ req[r].pc \in {"executing", "done"})
             => req[r].document = DocumentNode(req[r].source) /\ req[r].puts = 1

\* A descriptor-only request for a hash that the async store does not hold
\* was given the promise for a document.
C15_Witness ==
  /\ options.store = "async"
  /\ \E r \in Requests :
       /\ req[r].pc = "executing"
       /\ req[r].gets = 1
       /\ req[r].source = Undefined
       /\ req[r].document.kind = "Promise"
       /\ ~Has(store, req[r].queryHash)

\* The extensions of which the configured extractor makes no descriptor,
\* without an error.
WithoutDescriptor ==
  {ext \in Extensions :
     ~getPersistedQuery(ext, options).thrown /\ ~getPersistedQuery(ext, options).value.present}

\* The request is taken as a submission of its text: the hook is registered
\* for the hash of the text, nothing fails and the store is left alone.
Submitted(out, source) ==
  /\ out.req.pc = "parsing"
  /\ out.req.hook
  /\ out.req.error = NoError
  /\ out.req.queryHash = generateHash(source, options.hashAlgorithm)
  /\ out.req.gets = 0 /\ out.req.puts = 0
  /\ out.store = store

\* C16: without a descriptor, a request without query text (none, or the
\* empty text) fails with INTERNAL_SERVER_ERROR and the store is not
\* accessed; a request with a text does not fail and the hook is registered
\* to put under the hash of the text.
C16_NoOperationIdentifiable ==
  CanArrive =>
    \A ext \in WithoutDescriptor, source \in Sources :
      LET out == Outcome(ext, source)
      IN IF Truthy(source)
         THEN Submitted(out, source)
         ELSE /\ FailsWith(out, "INTERNAL_SERVER_ERROR")
              /\ out.req.error.message = INTERNAL_MESSAGE
              /\ NoStoreAccess(out)

\* A request without descriptor and text was refused while the store had
\* entries.
C16_Witness ==
  \E r \in Requests :
    /\ req[r].pc = "failed"
    /\ req[r].error.code = "INTERNAL_SERVER_ERROR"
    /\ req[r].gets = 0
    /\ store # <<>>

\* C17 as stated: with writeToContext, every request that is resolved to a
\* document has its hash in its context; without, no context is extended.
C17_WriteToContext ==
  \A r \in Requests :
    req[r].pc \in {"executing", "done"}
    => IF writeToContext(options)
       THEN req[r].ctx = req[r].queryHash
       ELSE req[r].ctx = NotExtended

\* C18: a descriptor-only request whose descriptor passes the version check
\* and has an undefined or empty hash fails with
\* PERSISTED_QUERY_HASH_MISSING and store.get is not called; no request that
\* carries a text fails with that code.
C18_HashMissing ==
  /\ \A r \in Requests :
       (req[r].pc = "failed" /\ req[r].error.code = codes.HASH_MISSING)
       => req[r].gets = 0 /\ ~Truthy(req[r].queryHash)
  /\ CanArrive =>
       /\ \A ext \in WithDescriptor :
            LET d == Descriptor(ext)
            IN (PassesVersionCheck(d) /\ ~Truthy(d.hash))
               => LET out == Outcome(ext, Undefined)
                  IN /\ FailsWith(out, codes.HASH_MISSING)
                     /\ out.req.error.message = errors.HASH_MISSING
                     /\ NoStoreAccess(out)
       /\ \A ext \in Extensions, source \in Texts :
            ~FailsWith(Outcome(ext, source), codes.HASH_MISSING)

\* A descriptor-only request with the empty hash was refused while the
\* store had entries.
C18_Witness ==
  \E r \in Requests :
    /\ req[r].pc = "failed"
    /\ req[r].error.code = codes.HASH_MISSING
    /\ req[r].queryHash = ""
    /\ store # <<>>

\* The value of the extension's hash field for the configured algorithm.
HashField(ext) ==
  IF ext.key = HashKey(options.hashAlgorithm) THEN ext.val ELSE Undefined

C20_ReadWriteExclusive ==
  /\ \A r \in Requests :
       /\ req[r].gets + req[r].puts <= 1
       /\ req[r].hook => req[r].gets = 0
       /\ req[r].gets = 1 => ~req[r].hook /\ req[r].source = Undefined
  /\ CanArrive =>
       \A ext \in Extensions, source \in Sources :
         LET out == Outcome(ext, source)
         IN IF source = Undefined
            THEN /\ ~out.req.hook /\ out.req.puts = 0
                 /\ out.req.pc = "executing"
                    => LET i == IndexOf(store, out.req.queryHash)
                       IN out.store = Append(Remove(store, i), store[i])
            ELSE out.req.gets = 0 /\ out.store = store

\* A descriptor-only request was resolved by a hit and has finished without
\* a write; its entry is the most recently used.
C20_Witness ==
  \E r \in Requests :
    /\ req[r].pc = "done"
    /\ req[r].gets = 1 /\ req[r].puts = 0
    /\ Len(store) = MaxSize
    /\ store[Len(store)].key = req[r].queryHash

====
